---- MODULE Spec2Model ----
(***************************************************************************)
(* Desktop reminder system: the cron scheduler (reminder_system/           *)
(* scheduler.py) with its background worker, and the presenter glue of     *)
(* ReminderApp (reminder_system/app.py).                                   *)
(*                                                                         *)
(* Time is the wall clock in whole seconds.  A minute has SecPerMin        *)
(* seconds and an hour MinPerHour minutes (60 and 60 in the program; the   *)
(* model scales both down).  The clock never runs backwards.               *)
(***************************************************************************)
EXTENDS Integers, Sequences, FiniteSets, TLC

\* ---------------------------------------------------------------- bounds
SecPerMin == 2
MinPerHour == 3
MaxClock == 5
MaxCalls == 2

\* ------------------------------------------------------- program constants
CHECK_INTERVAL == 1
None == -1
\* QTimer.singleShot(500, ...): half a second, less than one clock step
SHOW_DELAY == 1
\* self._thread.join(timeout=2.0)
JOIN_TIMEOUT == 2

\* The worker is late by at most one check interval.
MaxLag == CHECK_INTERVAL

\* A schedule with a step in its minute field (the scale's "*/20 * * * *")
StepCrons == {"*/2 * * * *"}

Names == {"a", "b"}
Crons == {"* * * * *", "0 * * * *"}
\* A string croniter.is_valid rejects
BadCrons == {"every minute"}

\* --------------------------------------------------------------- datetime
\* The wall clock when the scheduler is constructed: the start of the last
\* minute of an hour.  The model follows the clock for MaxClock seconds.
T0 == SecPerMin * (MinPerHour - 1)

MinuteIndex(t) == t \div SecPerMin

\* The `seconds` of the snooze calls: a second and a minute
Snoozes == {1, SecPerMin}
MinuteOf(t) == MinuteIndex(t) % MinPerHour

\* croniter: the set of minute-of-hour values a 5-field expression permits
\* (hour, day, month and weekday fields are "*" in every expression used).
CronMinutes(expr) ==
    CASE expr = "* * * * *" -> 0 .. (MinPerHour - 1)
      [] expr = "0 * * * *" -> {0}
      [] expr = "*/2 * * * *" -> { m \in 0 .. (MinPerHour - 1) : m % 2 = 0 }
      [] OTHER -> {}

IsValidCron(expr) == CronMinutes(expr) # {}

\* A get_next that returns the instant it is given when that instant matches
GetNextInclusive(expr, t) ==
    LET cand == { m \in ((t + SecPerMin - 1) \div SecPerMin) .. (MinuteIndex(t) + MinPerHour) :
                     (m % MinPerHour) \in CronMinutes(expr) }
        first == CHOOSE m \in cand : \A k \in cand : m <= k
    IN first * SecPerMin

\* croniter(expr, t).get_next(datetime): the first minute-aligned instant
\* strictly after t whose minute-of-hour the expression permits.
GetNext(expr, t) ==
    LET cand == { m \in (MinuteIndex(t) + 1) .. (MinuteIndex(t) + MinPerHour) :
                     (m % MinPerHour) \in CronMinutes(expr) }
        first == CHOOSE m \in cand : \A k \in cand : m <= k
    IN first * SecPerMin

VARIABLES
    clock,          \* datetime.now()
    reminders,      \* ReminderScheduler.reminders: name -> ScheduledReminder
    order,          \* insertion order of the dict's keys
    running,        \* ReminderScheduler._running
    lock,           \* ReminderScheduler._lock: "free" or its holder
    triggered,      \* ReminderScheduler._triggered_this_minute
    last_minute,    \* ReminderScheduler._last_minute
    wpc,            \* the worker thread's position in _run_loop
    wnow,           \* _run_loop's local `now`
    wake,           \* the instant time.sleep(CHECK_INTERVAL) returns
    threads,        \* callback threads of _run_loop, in the order they were started
    nDisp,          \* number of dispatches so far (numbers the callback threads)
    calls,          \* number of snooze/complete calls made so far
    last,           \* history: the latest snooze/complete call since the last dispatch
    log,            \* history, per name: the minute of its latest dispatch and
                    \* the number of dispatches within that minute
    active_reminder,    \* ReminderApp.active_reminder
    reminder_queue,     \* ReminderApp.reminder_queue
    timers,         \* pending QTimer.singleShot(500, ...) of _process_queue
    signals,        \* emitted ReminderTrigger.triggered signals not yet delivered
    overlay,        \* ReminderOverlay: reminder_name, is_interactive, visible
    hides,          \* pending QTimer.singleShot(fade_out_duration + 100, self.hide)
    arrived,        \* history: number of due messages the presenter has handled
    handled,        \* history: thread number of the latest handled due message
    raised,         \* the exception the latest call into the scheduler, or
                    \* the latest on_due callback, raised
    stopcall,       \* stop(): whether a caller waits in join, and since when
    stale,          \* worker threads of earlier start() calls that are still
                    \* alive: their position, local `now` and wake instant
    since,          \* a timed scenario: the instant t0 it began at (None outside one)
    file,           \* the configuration file: whether it exists, and the
                    \* top-level entries of its TOML document, in file order
    manager,        \* ConfigManager: reminders (in dict order) and general
    proc            \* the process: main()'s position and its exit status

schedVars == << reminders, order, running, lock, triggered, last_minute,
                wpc, wnow, wake, threads, nDisp, calls, last, log >>
appVars == << active_reminder, reminder_queue, timers, signals, overlay,
              hides, arrived, handled >>
lifeVars == << raised, stopcall, stale, since >>
cfgVars == << file, manager, proc >>
vars == << clock, schedVars, appVars, lifeVars, cfgVars >>

\* ------------------------------------------------------ ScheduledReminder
ScheduledReminder(expr, cb, next) ==
    [cron_expression |-> expr, callback |-> cb, next_run |-> next,
     snoozed_until |-> None]

\* calculate_next_run that counts on from the fire instant it replaces
calculate_next_run_from_slot(r, t) ==
    [r EXCEPT !.next_run = GetNext(r.cron_expression, r.next_run)]

\* calculate_next_run that counts from a minute before the wall clock
calculate_next_run_behind(r, t) ==
    [r EXCEPT !.next_run = GetNext(r.cron_expression, t - SecPerMin)]

\* ScheduledReminder.calculate_next_run at wall-clock time t
calculate_next_run(r, t) ==
    [r EXCEPT !.next_run = GetNext(r.cron_expression, t)]

\* A snooze that extends the snooze the entry carries already
snooze_extend(r, seconds, t) ==
    [r EXCEPT !.snoozed_until = (IF @ = None THEN t ELSE @) + seconds]

\* ScheduledReminder.snooze at wall-clock time t
snooze(r, seconds, t) ==
    [r EXCEPT !.snoozed_until = t + seconds]

\* clear_snooze that forgets to recalculate next_run
clear_snooze_only(r, t) ==
    [r EXCEPT !.snoozed_until = None]

\* ScheduledReminder.clear_snooze at wall-clock time t
clear_snooze(r, t) ==
    calculate_next_run([r EXCEPT !.snoozed_until = None], t)

\* get_effective_next_run that ignores the snooze
effective_ignoring_snooze(r, t) ==
    r.next_run

\* An effective time that is the snooze instant for as long as one is set
effective_while_set(r, t) ==
    IF r.snoozed_until # None THEN r.snoozed_until ELSE r.next_run

\* ScheduledReminder.get_effective_next_run at wall-clock time t
get_effective_next_run(r, t) ==
    IF r.snoozed_until # None /\ r.snoozed_until > t
    THEN r.snoozed_until
    ELSE r.next_run

\* --------------------------------------------------------- ReminderScheduler
Callbacks == {"mock", "complete", "snooze", "emit", "raise"}

NoCall == [op |-> "none", name |-> "", at |-> None, was |-> None]

\* History: a call `op` on `name` at time t; `was` is the snoozed_until the
\* entry carried before the call.
Call(op, name, t) ==
    [op |-> op, name |-> name, at |-> t,
     was |-> IF name \in DOMAIN reminders THEN reminders[name].snoozed_until ELSE None]

NoLog == [minute |-> None, count |-> 0]

\* The latest call into the scheduler returned normally.
NoRaise == [exc |-> "none", op |-> "", name |-> ""]

\* The call `op` for `name` raised the exception `exc`.
Raise(exc, op, name) == [exc |-> exc, op |-> op, name |-> name]

\* No stop() has been called.
NoStop == [joining |-> FALSE, began |-> None]

Known == DOMAIN reminders

\* ReminderScheduler.__init__
SchedulerInit ==
    /\ reminders = << >>
    /\ order = << >>
    /\ running = FALSE
    /\ lock = "free"
    /\ triggered = {}
    /\ last_minute = None
    /\ wpc = "none"
    /\ wnow = None
    /\ wake = None
    /\ threads = << >>
    /\ nDisp = 0
    /\ calls = 0
    /\ last = NoCall
    /\ log = [n \in Names |-> NoLog]
    /\ raised = NoRaise
    /\ stopcall = NoStop
    /\ stale = << >>
    /\ since = None

\* A container that stores a second entry under a name it holds already
DictAppend(d, ord, name, r) ==
    [rem |-> [k \in (DOMAIN d) \cup {name} |-> IF k = name THEN r ELSE d[k]],
     ord |-> Append(ord, name)]

\* self.reminders[name] = ScheduledReminder(...): a dict keeps a replaced key
\* at its position and puts a new key last
DictSet(d, ord, name, r) ==
    [rem |-> [k \in (DOMAIN d) \cup {name} |-> IF k = name THEN r ELSE d[k]],
     ord |-> IF name \in DOMAIN d THEN ord ELSE Append(ord, name)]

\* self.reminders.pop(name, None) ahead of the validation
Forgotten(d, ord, name) ==
    [rem |-> [k \in (DOMAIN d) \ {name} |-> d[k]],
     ord |-> SelectSeq(ord, LAMBDA k : k # name)]

\* Lines 76-77: the ValueError is raised before the dict is touched.
Rejected(d, ord, name) == [rem |-> d, ord |-> ord]

\* A call made while the worker runs counts against MaxCalls.
Counted == IF running THEN calls + 1 ELSE calls

\* ReminderScheduler.add_reminder(name, cron_expression, callback)
add_reminder(name, expr, cb) ==
    /\ running => calls < MaxCalls
    /\ calls' = Counted
    /\ IF ~IsValidCron(expr)
       THEN LET d == Rejected(reminders, order, name)
            IN /\ reminders' = d.rem
               /\ order' = d.ord
               /\ raised' = Raise("ValueError", "add", name)
       ELSE /\ lock = "free"
            /\ LET d == DictSet(reminders, order, name,
                                ScheduledReminder(expr, cb, GetNext(expr, clock)))
               IN /\ reminders' = d.rem
                  /\ order' = d.ord
            /\ raised' = NoRaise
    /\ UNCHANGED << appVars, cfgVars, since, stopcall, stale, clock, running, lock, triggered,
                    last_minute, wpc, wnow, wake, threads, nDisp, last, log >>

\* A removal that leaves the entry where it is
DictKeep(d, ord, name) ==
    [rem |-> d, ord |-> ord]

\* `del self.reminders[name]` when the name is a key
DictDel(d, ord, name) ==
    [rem |-> [k \in (DOMAIN d) \ {name} |-> d[k]],
     ord |-> SelectSeq(ord, LAMBDA k : k # name)]

\* ReminderScheduler.remove_reminder(name)
remove_reminder(name) ==
    /\ running => calls < MaxCalls
    /\ calls' = Counted
    /\ lock = "free"
    /\ LET d == IF name \in DOMAIN reminders
                THEN DictDel(reminders, order, name)
                ELSE [rem |-> reminders, ord |-> order]
       IN /\ reminders' = d.rem
          /\ order' = d.ord
    /\ raised' = NoRaise
    /\ UNCHANGED << appVars, cfgVars, since, stopcall, stale, clock, running, lock, triggered,
                    last_minute, wpc, wnow, wake, threads, nDisp, last, log >>

\* ReminderScheduler.snooze_reminder(name, seconds) at wall-clock time t
snooze_reminder(rems, name, seconds, t) ==
    IF name \in DOMAIN rems
    THEN [rems EXCEPT ![name] = snooze(@, seconds, t)]
    ELSE rems

\* ReminderScheduler.complete_reminder(name) at wall-clock time t
complete_reminder(rems, name, t) ==
    IF name \in DOMAIN rems
    THEN [rems EXCEPT ![name] = clear_snooze(@, t)]
    ELSE rems

\* The None that get_status returns in the place of a text
NoText == << >>

\* datetime.isoformat(): the text of an instant
isoformat(t) == << "iso", t >>

\* ReminderScheduler.get_status() at wall-clock time t: the dict it returns
get_status(rems, t) ==
    [n \in DOMAIN rems |->
        [next_run       |-> isoformat(rems[n].next_run),
         snoozed_until  |-> IF rems[n].snoozed_until # None
                            THEN isoformat(rems[n].snoozed_until)
                            ELSE NoText,
         effective_next |-> isoformat(get_effective_next_run(rems[n], t))]]

\* A caller's thread runs get_status under the lock; `last` keeps what it
\* returned.
StatusCall ==
    /\ lock = "free"
    /\ last' = [op |-> "status", name |-> "", at |-> clock,
                was |-> get_status(reminders, clock)]
    /\ raised' = NoRaise
    /\ UNCHANGED << appVars, cfgVars, since, stopcall, stale, clock, reminders, order, running,
                    lock, triggered, last_minute, wpc, wnow, wake, threads, nDisp,
                    calls, log >>

\* A caller's thread runs snooze_reminder: it takes the lock, so it runs
\* only while no other thread holds it.
SnoozeCall(name, seconds) ==
    /\ calls < MaxCalls
    /\ calls' = calls + 1
    /\ lock = "free"
    /\ reminders' = snooze_reminder(reminders, name, seconds, clock)
    /\ last' = Call("snooze", name, clock)
    /\ raised' = NoRaise
    /\ UNCHANGED << appVars, cfgVars, since, stopcall, stale, clock, order, running, lock, triggered, last_minute, wpc,
                    wnow, wake, threads, nDisp, log >>

\* A caller's thread runs complete_reminder.
CompleteCall(name) ==
    /\ calls < MaxCalls
    /\ calls' = calls + 1
    /\ lock = "free"
    /\ reminders' = complete_reminder(reminders, name, clock)
    /\ last' = Call("complete", name, clock)
    /\ raised' = NoRaise
    /\ UNCHANGED << appVars, cfgVars, since, stopcall, stale, clock, order, running, lock, triggered, last_minute, wpc,
                    wnow, wake, threads, nDisp, log >>

\* A start() that does not test the flag
NeverRunning == FALSE

\* Line 115: `if self._running`
AlreadyRunning == running

\* The thread self._thread refers to is alive.
WorkerAlive == wpc \notin {"none", "exited"}

\* ReminderScheduler.start on a scheduler that is not running: the new
\* thread reaches the loop test of _run_loop no earlier than now.
\* self._thread is overwritten; the thread it referred to, if still alive,
\* lives on.
Start ==
    /\ ~AlreadyRunning
    /\ running' = TRUE
    /\ wpc' = "sleep"
    /\ wake' = clock
    /\ stale' = IF WorkerAlive
                THEN Append(stale, [pc |-> wpc, now |-> wnow, wake |-> wake])
                ELSE stale
    /\ raised' = NoRaise
    /\ UNCHANGED << appVars, cfgVars, since, stopcall, clock, reminders, order, lock, triggered, last_minute,
                    wnow, threads, nDisp, calls, last, log >>

\* ReminderScheduler.start on a running scheduler: `if self._running: return`
StartAgain ==
    /\ AlreadyRunning
    /\ calls < MaxCalls
    /\ calls' = calls + 1
    /\ raised' = NoRaise
    /\ UNCHANGED << appVars, cfgVars, since, stopcall, stale, clock, reminders, order, running, lock,
                    triggered, last_minute, wpc, wnow, wake, threads, nDisp, last, log >>

\* ReminderScheduler.stop up to the join: the flag is cleared and, if a
\* thread was ever started, the caller waits for the thread self._thread
\* refers to.
StopBegin ==
    /\ ~stopcall.joining
    /\ running' = FALSE
    /\ stopcall' = IF wpc # "none"
                   THEN [joining |-> TRUE, began |-> clock]
                   ELSE NoStop
    /\ raised' = NoRaise
    /\ UNCHANGED << appVars, cfgVars, since, stale, clock, reminders, order, lock, triggered,
                    last_minute, wpc, wnow, wake, threads, nDisp, calls, last, log >>

\* join(timeout=2.0) returns: the thread has ended or the timeout has run
\* out; stop() returns.
StopReturn ==
    /\ stopcall.joining
    /\ wpc = "exited" \/ clock >= stopcall.began + JOIN_TIMEOUT
    /\ stopcall' = NoStop
    /\ UNCHANGED << appVars, cfgVars, since, raised, stale, clock, schedVars >>

\* -------------------------------------------------------------- _run_loop
\* History: one more dispatch of `name` at wall-clock time t.
Logged(lg, name, t) ==
    [lg EXCEPT ![name] =
        IF @.minute = MinuteIndex(t)
        THEN [@ EXCEPT !.count = @ + 1]
        ELSE [minute |-> MinuteIndex(t), count |-> 1]]

\* The dispatch branch of the loop body (lines 151-165): the entry is due.
Dispatch(st, name, t) ==
    [rem   |-> [st.rem EXCEPT ![name] =
                   calculate_next_run([@ EXCEPT !.snoozed_until = None], t)],
     trig  |-> st.trig \cup {name},
     fired |-> Append(st.fired, name)]

\* A loop body whose dispatch branch only starts the callback thread and
\* leaves the entry and the per-minute set as they were.
ScanEntryNoUpdate(st, name, tnow, t) ==
    IF name \in st.trig
    THEN st
    ELSE IF tnow >= get_effective_next_run(st.rem[name], t)
         THEN [st EXCEPT !.fired = Append(@, name)]
         ELSE st

\* One iteration of `for name, reminder in list(self.reminders.items())`,
\* with the loop's `now` = tnow, at wall-clock time t.
ScanEntry(st, name, tnow, t) ==
    IF name \in st.trig
    THEN st
    ELSE IF tnow >= get_effective_next_run(st.rem[name], t)
         THEN Dispatch(st, name, t)
         ELSE st

RECURSIVE ScanFrom(_, _, _, _, _)
ScanFrom(st, ord, i, tnow, t) ==
    IF i > Len(ord)
    THEN st
    ELSE ScanFrom(ScanEntry(st, ord[i], tnow, t), ord, i + 1, tnow, t)

RECURSIVE LoggedAll(_, _, _, _)
LoggedAll(lg, fired, i, t) ==
    IF i > Len(fired)
    THEN lg
    ELSE LoggedAll(Logged(lg, fired[i], t), fired, i + 1, t)

\* threading.Thread(target=reminder.callback, args=(name,)).start() for each
\* dispatched name, in dispatch order
Started(rems, fired, base) ==
    [i \in 1 .. Len(fired) |->
        [name |-> fired[i], cb |-> rems[fired[i]].callback,
         seq |-> base + i, st |-> "started"]]

\* Lines 132-139: the loop test, `now = datetime.now()` and the reset of the
\* per-minute set, once the thread has started or time.sleep(CHECK_INTERVAL)
\* has returned (no earlier than `wake`).
WorkerTop ==
    /\ wpc = "sleep"
    /\ clock >= wake
    /\ running
    /\ wnow' = clock
    /\ IF last_minute # MinuteOf(clock)
       THEN /\ triggered' = {}
            /\ last_minute' = MinuteOf(clock)
       ELSE UNCHANGED << triggered, last_minute >>
    /\ wpc' = "scan"
    /\ UNCHANGED << appVars, lifeVars, cfgVars, clock, reminders, order, running, lock, wake, threads,
                    nDisp, calls, last, log >>

\* A loop test that does not read the flag
NeverStops == FALSE

\* Line 132, `while self._running:`, finds the flag cleared
SeesStop == ~running

\* The worker finds the flag cleared at the loop test and _run_loop returns.
WorkerExit ==
    /\ wpc = "sleep"
    /\ clock >= wake
    /\ SeesStop
    /\ wpc' = "exited"
    /\ wnow' = None
    /\ wake' = None
    /\ UNCHANGED << appVars, lifeVars, cfgVars, clock, reminders, order, running, lock, triggered,
                    last_minute, threads, nDisp, calls, last, log >>

\* Lines 141-165: `with self._lock:` and the whole scan.  The lock stays
\* held until WorkerSleep.
WorkerScan ==
    /\ wpc = "scan"
    /\ lock = "free"
    /\ lock' = "worker"
    /\ LET st == ScanFrom([rem |-> reminders, trig |-> triggered, fired |-> << >>],
                          order, 1, wnow, clock)
       IN /\ reminders' = st.rem
          /\ triggered' = st.trig
          /\ threads' = threads \o Started(reminders, st.fired, nDisp)
          /\ nDisp' = nDisp + Len(st.fired)
          /\ log' = LoggedAll(log, st.fired, 1, clock)
          /\ last' = IF st.fired = << >> THEN last ELSE NoCall
    /\ wpc' = "scanned"
    /\ UNCHANGED << appVars, lifeVars, cfgVars, clock, order, running, last_minute, wnow, wake, calls >>

\* A worker that joins its callback threads before it leaves the `with`
\* block (or calls reminder.callback(name) itself).
JoinsCallbacks(ths) == ths = << >>

\* Lines 161-165 start the callback threads and never join them: the worker
\* leaves the `with` block whatever the threads `ths` are doing.
LeavesWith(ths) == TRUE

\* The end of the `with` block and line 167: time.sleep(CHECK_INTERVAL).
WorkerSleep ==
    /\ wpc = "scanned"
    /\ LeavesWith(threads)
    /\ lock' = "free"
    /\ wake' = clock + CHECK_INTERVAL
    /\ wpc' = "sleep"
    /\ UNCHANGED << appVars, lifeVars, cfgVars, clock, reminders, order, running, triggered, last_minute,
                    wnow, threads, nDisp, calls, last, log >>

\* A sequence without its element i
Without(seq, i) == [j \in 1 .. (Len(seq) - 1) |-> IF j < i THEN seq[j] ELSE seq[j + 1]]

\* ---------------------------------- worker threads of earlier start() calls
\* A thread that an earlier start() created runs the same _run_loop on the
\* same scheduler: loop test, `now` and the reset of the per-minute set.
StaleTop(i) ==
    /\ stale[i].pc = "sleep"
    /\ clock >= stale[i].wake
    /\ running
    /\ stale' = [stale EXCEPT ![i].pc = "scan", ![i].now = clock]
    /\ IF last_minute # MinuteOf(clock)
       THEN /\ triggered' = {}
            /\ last_minute' = MinuteOf(clock)
       ELSE UNCHANGED << triggered, last_minute >>
    /\ UNCHANGED << appVars, cfgVars, since, raised, stopcall, clock, reminders, order, running, lock,
                    wpc, wnow, wake, threads, nDisp, calls, last, log >>

\* Its loop test finds the flag cleared: the thread ends.
StaleExit(i) ==
    /\ stale[i].pc = "sleep"
    /\ clock >= stale[i].wake
    /\ SeesStop
    /\ stale' = Without(stale, i)
    /\ UNCHANGED << appVars, cfgVars, since, raised, stopcall, clock, schedVars >>

\* Its scan under the lock
StaleScan(i) ==
    /\ stale[i].pc = "scan"
    /\ lock = "free"
    /\ lock' = "stale"
    /\ LET st == ScanFrom([rem |-> reminders, trig |-> triggered, fired |-> << >>],
                          order, 1, stale[i].now, clock)
       IN /\ reminders' = st.rem
          /\ triggered' = st.trig
          /\ threads' = threads \o Started(reminders, st.fired, nDisp)
          /\ nDisp' = nDisp + Len(st.fired)
          /\ log' = LoggedAll(log, st.fired, 1, clock)
          /\ last' = IF st.fired = << >> THEN last ELSE NoCall
    /\ stale' = [stale EXCEPT ![i].pc = "scanned"]
    /\ UNCHANGED << appVars, cfgVars, since, raised, stopcall, clock, order, running, last_minute,
                    wpc, wnow, wake, calls >>

\* The end of its `with` block and its time.sleep(CHECK_INTERVAL)
StaleSleep(i) ==
    /\ stale[i].pc = "scanned"
    /\ lock' = "free"
    /\ stale' = [stale EXCEPT ![i].pc = "sleep", ![i].wake = clock + CHECK_INTERVAL]
    /\ UNCHANGED << appVars, cfgVars, since, raised, stopcall, clock, reminders, order, running,
                    triggered, last_minute, wpc, wnow, wake, threads, nDisp, calls,
                    last, log >>

\* ------------------------------------------------------- callback threads

\* A started callback thread gets the processor and enters
\* reminder.callback(name).
CallbackBegin(i) ==
    /\ threads[i].st = "started"
    /\ threads' = [threads EXCEPT ![i].st = "running"]
    /\ UNCHANGED << appVars, lifeVars, cfgVars, clock, reminders, order, running, lock, triggered,
                    last_minute, wpc, wnow, wake, nDisp, calls, last, log >>

\* on_due is a callback that does not touch the scheduler (a Mock): the
\* thread runs it and ends.
CallbackMock(i) ==
    /\ threads[i].st = "started"
    /\ threads[i].cb = "mock"
    /\ threads' = Without(threads, i)
    /\ UNCHANGED << appVars, lifeVars, cfgVars, clock, reminders, order, running, lock, triggered,
                    last_minute, wpc, wnow, wake, nDisp, calls, last, log >>

\* A worker that runs reminder.callback(name) itself: the exception ends
\* _run_loop.
Propagated(pc) == "exited"

\* Lines 161-165: the callback runs in a thread of its own, so what it
\* raises ends that thread and reaches no other; the worker stays where it is.
Contained(pc) == pc

\* on_due raises: the callback thread ends with the exception.
CallbackRaise(i) ==
    /\ threads[i].st = "started"
    /\ threads[i].cb = "raise"
    /\ threads' = Without(threads, i)
    /\ raised' = Raise("Exception", "on_due", threads[i].name)
    /\ wpc' = Contained(wpc)
    /\ UNCHANGED << appVars, cfgVars, since, stopcall, stale, clock, reminders, order, running, lock,
                    triggered, last_minute, wnow, wake, nDisp, calls, last, log >>

\* on_due is a callback that calls complete_reminder(name) on the scheduler.
CallbackComplete(i) ==
    /\ threads[i].st = "running"
    /\ threads[i].cb = "complete"
    /\ lock = "free"
    /\ reminders' = complete_reminder(reminders, threads[i].name, clock)
    /\ last' = Call("complete", threads[i].name, clock)
    /\ threads' = Without(threads, i)
    /\ UNCHANGED << appVars, lifeVars, cfgVars, clock, order, running, lock, triggered, last_minute, wpc,
                    wnow, wake, nDisp, calls, log >>

\* on_due is a callback that calls snooze_reminder(name, seconds).
CallbackSnooze(i, seconds) ==
    /\ threads[i].st = "running"
    /\ threads[i].cb = "snooze"
    /\ lock = "free"
    /\ reminders' = snooze_reminder(reminders, threads[i].name, seconds, clock)
    /\ last' = Call("snooze", threads[i].name, clock)
    /\ threads' = Without(threads, i)
    /\ UNCHANGED << appVars, lifeVars, cfgVars, clock, order, running, lock, triggered, last_minute, wpc,
                    wnow, wake, nDisp, calls, log >>

\* ------------------------------------------------------------ wall clock
\* The worker is late by at most MaxLag: the clock passes neither
\* wnow + MaxLag while a tick is in progress nor wake + MaxLag while the
\* worker sleeps.  A pending single-shot of _process_queue fires within the
\* second after the one it was set in.
Advance ==
    /\ running
    /\ clock < T0 + MaxClock
    /\ wpc \in {"scan", "scanned"} => clock < wnow + MaxLag
    /\ wpc = "sleep" => clock < wake + MaxLag
    /\ \A i \in DOMAIN timers : clock < timers[i].at + SHOW_DELAY
    /\ stopcall.joining => clock < stopcall.began + JOIN_TIMEOUT
    /\ clock' = clock + 1
    /\ UNCHANGED << schedVars, appVars, lifeVars, cfgVars >>

\* The wall clock while the scheduler is started and stopped: every thread
\* that is alive is late by at most MaxLag, and a caller waits in join no
\* longer than the timeout.
Elapse ==
    /\ clock < T0 + MaxClock
    /\ wpc \in {"scan", "scanned"} => clock < wnow + MaxLag
    /\ wpc = "sleep" => clock < wake + MaxLag
    /\ \A i \in DOMAIN stale :
           IF stale[i].pc = "sleep"
           THEN clock < stale[i].wake + MaxLag
           ELSE clock < stale[i].now + MaxLag
    /\ stopcall.joining => clock < stopcall.began + JOIN_TIMEOUT
    /\ clock' = clock + 1
    /\ UNCHANGED << schedVars, appVars, lifeVars, cfgVars >>

\* The lengths of a suspension: a minute and an hour
Jumps == {SecPerMin, SecPerMin * MinPerHour}

\* The process is suspended while the worker is in time.sleep, and resumed
\* d seconds later: the wall clock has moved on, no thread has.
Suspend(d) ==
    /\ running
    /\ wpc = "sleep"
    /\ clock < T0 + MaxClock
    /\ timers = << >>
    /\ clock' = clock + d
    /\ UNCHANGED << schedVars, appVars, lifeVars, cfgVars >>

\* ------------------------------------------------------------ ReminderApp
\* `active_reminder is None`
NoReminder == [name |-> "", arr |-> 0]

\* ReminderOverlay.__init__: nothing shown yet
NoOverlay == [reminder_name |-> "", is_interactive |-> FALSE, visible |-> FALSE]

\* config_manager.reminders: initialize() registers every reminder of the
\* catalogue with the scheduler, so the two hold the same names.
config_reminders == DOMAIN reminders

\* A lookup that finds a catalogue entry under every name
in_any_catalogue(name) == TRUE

\* `name in self.config_manager.reminders`
in_catalogue(name) == name \in config_reminders

\* ReminderConfig.snooze_duration of the catalogue entry `name`
snooze_duration(name) == IF name = "a" THEN 1 ELSE SecPerMin

\* ReminderApp.__init__
AppInit ==
    /\ active_reminder = NoReminder
    /\ reminder_queue = << >>
    /\ timers = << >>
    /\ signals = << >>
    /\ overlay = NoOverlay
    /\ hides = 0
    /\ arrived = 0
    /\ handled = 0

\* ReminderOverlay.show_reminder(name, ...)
show_reminder(name) ==
    [reminder_name |-> name, is_interactive |-> FALSE, visible |-> TRUE]

\* ReminderApp._show_reminder(config)
show(config) ==
    /\ active_reminder' = config
    /\ overlay' = show_reminder(config.name)

\* _process_queue that takes the newest queued reminder
process_queue_newest(q, tm, t) ==
    IF q # << >>
    THEN [queue  |-> SubSeq(q, 1, Len(q) - 1),
          timers |-> Append(tm, [ev |-> q[Len(q)], at |-> t])]
    ELSE [queue |-> q, timers |-> tm]

\* ReminderApp._process_queue at wall-clock time t: pop(0) and a single-shot
\* timer that will show the popped reminder
process_queue(q, tm, t) ==
    IF q # << >>
    THEN [queue  |-> Tail(q),
          timers |-> Append(tm, [ev |-> Head(q), at |-> t])]
    ELSE [queue |-> q, timers |-> tm]

\* ReminderApp._trigger_reminder_threadsafe(name) on callback thread i: the
\* signal is emitted and queued for the GUI thread; the thread ends.
trigger_reminder_threadsafe(i) ==
    /\ threads[i].st = "started"
    /\ threads[i].cb = "emit"
    /\ signals' = Append(signals, [name |-> threads[i].name, seq |-> threads[i].seq])
    /\ threads' = Without(threads, i)
    /\ UNCHANGED << lifeVars, cfgVars, clock, reminders, order, running, lock, triggered,
                    last_minute, wpc, wnow, wake, nDisp, calls, last, log,
                    active_reminder, reminder_queue, timers, overlay, hides,
                    arrived, handled >>

\* ReminderApp._on_reminder_triggered(name): the GUI thread takes the oldest
\* queued signal.
on_reminder_triggered ==
    /\ signals # << >>
    /\ signals' = Tail(signals)
    /\ arrived' = arrived + 1
    /\ handled' = Head(signals).seq
    /\ LET name   == Head(signals).name
           config == [name |-> name, arr |-> arrived + 1]
       IN IF ~in_catalogue(name)
          THEN UNCHANGED << active_reminder, reminder_queue, overlay >>
          ELSE IF active_reminder # NoReminder
               THEN /\ reminder_queue' = Append(reminder_queue, config)
                    /\ UNCHANGED << active_reminder, overlay >>
               ELSE /\ show(config)
                    /\ UNCHANGED reminder_queue
    /\ UNCHANGED << clock, schedVars, lifeVars, cfgVars, timers, hides >>

\* Due messages a behaviour of the presenter alone carries
MaxEmits == MaxCalls

\* ReminderApp._trigger_reminder_threadsafe(name) called with any name: the
\* signal is emitted and queued for the GUI thread.
Emit(name) ==
    /\ arrived + Len(signals) < MaxEmits
    /\ signals' = Append(signals, [name |-> name, seq |-> 0])
    /\ UNCHANGED << clock, schedVars, lifeVars, cfgVars, active_reminder, reminder_queue,
                    timers, overlay, hides, arrived, handled >>

\* ReminderApp.trigger_reminder(name): the manual trigger
trigger_reminder(name) ==
    /\ calls < MaxCalls
    /\ calls' = calls + 1
    /\ last' = Call("trigger", name, clock)
    /\ IF ~in_catalogue(name)
       THEN UNCHANGED << active_reminder, overlay >>
       ELSE show([name |-> name, arr |-> 0])
    /\ UNCHANGED << lifeVars, cfgVars, clock, reminders, order, running, lock, triggered,
                    last_minute, wpc, wnow, wake, threads, nDisp, log,
                    reminder_queue, timers, signals, hides, arrived, handled >>

\* The user can press a button: ReminderOverlay._on_complete and _on_snooze
\* return at once unless is_interactive, and a hidden window gets no clicks.
CanRespond ==
    /\ overlay.is_interactive
    /\ overlay.visible
    /\ calls < MaxCalls
    /\ lock = "free"

\* What both response handlers of ReminderApp do after the call into the
\* scheduler; ReminderOverlay._dismiss has set the hide single-shot.
Responded ==
    /\ hides' = hides + 1
    /\ calls' = calls + 1
    /\ active_reminder' = NoReminder
    /\ LET pq == process_queue(reminder_queue, timers, clock)
       IN /\ reminder_queue' = pq.queue
          /\ timers' = pq.timers
    /\ UNCHANGED << lifeVars, cfgVars, clock, order, running, lock, triggered, last_minute, wpc,
                    wnow, wake, threads, nDisp, log, signals, overlay,
                    arrived, handled >>

\* ReminderOverlay._on_complete, then ReminderApp._on_reminder_completed(name)
on_reminder_completed ==
    /\ CanRespond
    /\ reminders' = complete_reminder(reminders, overlay.reminder_name, clock)
    /\ last' = Call("complete", overlay.reminder_name, clock)
    /\ Responded

\* ReminderOverlay._on_snooze, then
\* ReminderApp._on_reminder_snoozed(name, duration)
on_reminder_snoozed ==
    /\ CanRespond
    /\ reminders' = snooze_reminder(reminders, overlay.reminder_name,
                                    snooze_duration(overlay.reminder_name), clock)
    /\ last' = Call("snooze", overlay.reminder_name, clock)
    /\ Responded

\* The single-shot of _process_queue fires:
\* lambda: self._show_reminder(next_reminder)
TimerShow ==
    /\ timers # << >>
    /\ timers' = Tail(timers)
    /\ show(Head(timers).ev)
    /\ UNCHANGED << clock, schedVars, lifeVars, cfgVars, reminder_queue, signals, hides,
                    arrived, handled >>

\* The single-shot of ReminderOverlay._dismiss fires: self.hide().  Whether
\* it fires before or after the single-shot of _process_queue depends on the
\* configured fade_out_duration.
OverlayHide ==
    /\ hides > 0
    /\ hides' = hides - 1
    /\ overlay' = [overlay EXCEPT !.visible = FALSE]
    /\ UNCHANGED << clock, schedVars, lifeVars, cfgVars, active_reminder, reminder_queue, timers,
                    signals, arrived, handled >>

\* ReminderOverlay._make_interactive: the fade-in that show_reminder started
\* has finished.  It takes more than BACKGROUND_FADE_DELAY = 1000 ms, so a
\* pending 500 ms single-shot of _process_queue fires first.
make_interactive ==
    /\ overlay.reminder_name # ""
    /\ ~overlay.is_interactive
    /\ timers = << >>
    /\ overlay' = [overlay EXCEPT !.is_interactive = TRUE]
    /\ UNCHANGED << clock, schedVars, lifeVars, cfgVars, active_reminder, reminder_queue, timers,
                    signals, hides, arrived, handled >>

\* ---------------------------------------------------------- configuration
\* GeneralConfig(): the dataclass defaults (floats keep their text)
GeneralConfig ==
    [text_font |-> "Sans Serif", text_size |-> 24, icon_scale |-> "1.0",
     max_opacity |-> "0.85", fade_in_duration |-> 2000,
     fade_out_duration |-> 500]

GeneralKeys == DOMAIN GeneralConfig

\* A value a [general] table gives to each key, none of them the default
GivenGeneral ==
    [text_font |-> "Mono", text_size |-> 12, icon_scale |-> "2.0",
     max_opacity |-> "0.5", fade_in_duration |-> 100,
     fade_out_duration |-> 900]

\* settings.get("snooze_duration", 300)
DEFAULT_SNOOZE == 300

\* The keys ReminderConfig.from_dict reads
ReminderKeys == {"schedule", "icon", "snooze_duration", "text"}

\* The values a reminder table gives to the keys other than schedule
GivenReminder ==
    [schedule |-> "", icon |-> "water.png", snooze_duration |-> 120,
     text |-> "Time to drink some water!"]

\* The schedule strings of the configuration files considered
Schedules == {"* * * * *"} \cup BadCrons

\* A top-level value that is not a table (isinstance(settings, dict) fails)
Scalar == [table |-> FALSE, settings |-> [k \in {} |-> ""]]

Table(settings) == [table |-> TRUE, settings |-> settings]

\* The [general] tables considered: no key, one key, or all of them
GeneralTables ==
    { Table([k \in S |-> GivenGeneral[k]]) :
        S \in { T \in SUBSET GeneralKeys : Cardinality(T) <= 1 \/ T = GeneralKeys } }

\* The reminder tables considered: any of the four keys present or not
ReminderTables ==
    UNION { { Table([k \in S |-> IF k = "schedule" THEN sch ELSE GivenReminder[k]]) :
                sch \in Schedules } : S \in SUBSET ReminderKeys }

\* The values the top-level key `name` may have in a configuration file
ValuesOf(name) ==
    {Scalar} \cup (IF name = "general" THEN GeneralTables ELSE ReminderTables)

\* The top-level keys of the configuration files considered
TopKeys == Names \cup {"general"}

\* config_data.items(): the keys of the document, in file order
KeysOf(data) == { data[i].name : i \in 1 .. Len(data) }

\* No configuration file at config_dir / CONFIG_FILE.  `read` tells whether
\* load_config_file has read the file since it was last written.
NoFile == [exists |-> FALSE, data |-> << >>, read |-> FALSE]

\* Optional[str]: None, or the string
NoString == << >>
Some(s) == << s >>

\* config_dir / icon_filename
PathJoin(dir, filename) == << dir, filename >>

\* A from_dict that takes a [general] table only when it gives every key
GeneralConfig_whole(settings) ==
    IF DOMAIN settings = GeneralKeys THEN settings ELSE GeneralConfig

\* GeneralConfig.from_dict(settings)
GeneralConfig_from_dict(settings) ==
    [k \in GeneralKeys |->
        IF k \in DOMAIN settings THEN settings[k] ELSE GeneralConfig[k]]

\* ReminderConfig.from_dict(name, settings, config_dir): only the presence
\* of the two required keys is checked; the exception names the reminder
\* and the key.
ReminderConfig_from_dict(name, settings) ==
    IF "schedule" \notin DOMAIN settings
    THEN [raised |-> Raise("ValueError", "schedule", name)]
    ELSE IF "icon" \notin DOMAIN settings
    THEN [raised |-> Raise("ValueError", "icon", name)]
    ELSE [raised |-> NoRaise,
          reminder |->
            [name |-> name,
             schedule |-> settings["schedule"],
             icon |-> settings["icon"],
             snooze_duration |->
                IF "snooze_duration" \in DOMAIN settings
                THEN settings["snooze_duration"] ELSE DEFAULT_SNOOZE,
             icon_path |-> PathJoin("config_dir", settings["icon"]),
             text |-> IF "text" \in DOMAIN settings
                      THEN Some(settings["text"]) ELSE NoString]]

\* A dict that puts a new key before the others
CataloguePush(cat, reminder) ==
    << reminder >> \o cat

\* reminders[name] = reminder on a dict kept as the sequence of its values:
\* a new key goes to the end, a key already there keeps its place.
CatalogueSet(cat, reminder) ==
    IF \E i \in 1 .. Len(cat) : cat[i].name = reminder.name
    THEN [i \in 1 .. Len(cat) |->
            IF cat[i].name = reminder.name THEN reminder ELSE cat[i]]
    ELSE Append(cat, reminder)

\* The loop of parse_config_data from the i-th item on; acc holds reminders
\* and general_config so far.
RECURSIVE parse_items(_, _, _)
parse_items(data, i, acc) ==
    IF i > Len(data) THEN acc
    ELSE LET name == data[i].name
             value == data[i].value
         IN IF ~value.table
            THEN parse_items(data, i + 1, acc)
            ELSE IF name = "general"
            THEN parse_items(data, i + 1,
                    [acc EXCEPT !.general = GeneralConfig_from_dict(value.settings)])
            ELSE LET r == ReminderConfig_from_dict(name, value.settings)
                 IN IF r.raised # NoRaise
                    THEN [acc EXCEPT !.raised = r.raised]
                    ELSE parse_items(data, i + 1,
                            [acc EXCEPT !.reminders = CatalogueSet(@, r.reminder)])

\* parse_config_data(config_data, config_dir): the pair it returns, or the
\* exception it raises
parse_config_data(data) ==
    parse_items(data, 1,
        [raised |-> NoRaise, reminders |-> << >>, general |-> GeneralConfig])

\* ConfigManager.__init__; no configuration file yet; main() not entered
ConfigInit ==
    /\ file = NoFile
    /\ manager = [reminders |-> << >>, general |-> GeneralConfig]
    /\ proc = [at |-> "main", code |-> None]

\* The user writes one more top-level entry at the end of the file
\* (creating the file with the first).  TOML does not allow a key twice.
WriteEntry(name, value) ==
    /\ proc.at = "main"
    /\ name \notin KeysOf(file.data)
    /\ file' = [exists |-> TRUE, read |-> FALSE,
                data |-> Append(file.data, [name |-> name, value |-> value])]
    /\ UNCHANGED << clock, schedVars, appVars, lifeVars, manager, proc >>

\* An assignment that stores what was parsed before the exception
AssignPartial(m, r) ==
    [reminders |-> r.reminders, general |-> r.general]

\* An assignment of the pair only when parse_config_data has returned
AssignPair(m, r) ==
    IF r.raised # NoRaise THEN m
    ELSE [reminders |-> r.reminders, general |-> r.general]

\* ConfigManager.load_config()
load_config ==
    /\ proc.at = "main"
    /\ IF ~file.exists
       THEN /\ raised' = Raise("FileNotFoundError", "load_config", "")
            /\ UNCHANGED << manager, file >>
       ELSE LET r == parse_config_data(file.data)
            IN /\ raised' = r.raised
               /\ manager' = AssignPair(manager, r)
               /\ file' = [file EXCEPT !.read = TRUE]
    /\ UNCHANGED << clock, schedVars, appVars, proc, stopcall, stale, since >>

\* ConfigManager.create_example_config(): the file it writes, a [general]
\* table that gives every key its default and reminder tables that give all
\* four keys (here under the names of Names).
ExampleData ==
    LET table == Table([GivenReminder EXCEPT !.schedule = "0 * * * *"])
    IN << [name |-> "general", value |-> Table(GeneralConfig)],
          [name |-> "a", value |-> table],
          [name |-> "b", value |-> table] >>

example_config == [exists |-> TRUE, read |-> FALSE, data |-> ExampleData]

\* The loop of initialize over reminders.items() from the i-th item on:
\* scheduler.add_reminder for each, until one raises.  d holds the
\* scheduler's entries and their order.
RECURSIVE schedule_items(_, _, _, _)
schedule_items(cat, i, d, t) ==
    IF i > Len(cat) THEN d
    ELSE IF ~IsValidCron(cat[i].schedule)
    THEN [d EXCEPT !.raised = Raise("ValueError", "add", cat[i].name)]
    ELSE LET n == DictSet(d.rem, d.ord, cat[i].name,
                          ScheduledReminder(cat[i].schedule, "emit",
                                            GetNext(cat[i].schedule, t)))
         IN schedule_items(cat, i + 1, [d EXCEPT !.rem = n.rem, !.ord = n.ord], t)

\* ReminderApp.initialize() at time t with the file f, the ConfigManager m
\* and the scheduler's entries rem in the order ord: what it returns (ok)
\* and what it leaves behind.
initialize(f, m, rem, ord, t) ==
    LET same == [ok |-> FALSE, file |-> f, manager |-> m, rem |-> rem,
                 ord |-> ord, raised |-> NoRaise]
    IN IF ~f.exists
       THEN [same EXCEPT !.file = example_config,
                         !.raised = Raise("FileNotFoundError", "load_config", "")]
       ELSE LET r == parse_config_data(f.data)
                read == [f EXCEPT !.read = TRUE]
            IN IF r.raised # NoRaise
               THEN [same EXCEPT !.file = read, !.raised = r.raised]
               ELSE LET loaded == AssignPair(m, r)
                    IN IF loaded.reminders = << >>
                       THEN [same EXCEPT !.file = read, !.manager = loaded]
                       ELSE LET d == schedule_items(loaded.reminders, 1,
                                        [rem |-> rem, ord |-> ord, raised |-> NoRaise], t)
                            IN [ok |-> d.raised = NoRaise, file |-> read,
                                manager |-> loaded, rem |-> d.rem,
                                ord |-> d.ord, raised |-> d.raised]

\* A main that goes on whatever initialize returned
carry_on(init) == FALSE

\* main(): `if not reminder_app.initialize(): sys.exit(1)`
init_failed(init) == ~init.ok

\* main(): initialize, then either sys.exit(1) or run(), which starts the
\* scheduler, and the event loop.
main ==
    /\ proc.at = "main"
    /\ LET init == initialize(file, manager, reminders, order, clock)
       IN /\ file' = init.file
          /\ manager' = init.manager
          /\ reminders' = init.rem
          /\ order' = init.ord
          /\ IF init_failed(init)
             THEN /\ proc' = [at |-> "exited", code |-> 1]
                  /\ raised' = init.raised
                  /\ UNCHANGED << running, wpc, wake >>
             ELSE /\ proc' = [at |-> "exec", code |-> None]
                  /\ raised' = NoRaise
                  /\ running' = TRUE
                  /\ wpc' = "sleep"
                  /\ wake' = clock
    /\ UNCHANGED << appVars, since, stopcall, stale, clock, lock, triggered,
                    last_minute, wnow, threads, nDisp, calls, last, log >>

\* ------------------------------------------------ scheduler used directly
Init ==
    /\ clock = T0
    /\ SchedulerInit
    /\ AppInit
    /\ ConfigInit

Next ==
    \/ \E n \in Names, e \in Crons : ~running /\ add_reminder(n, e, "mock")
    \/ Start
    \/ WorkerTop
    \/ WorkerScan
    \/ WorkerSleep
    \/ \E i \in DOMAIN threads : CallbackMock(i)
    \/ \E n \in Names, s \in Snoozes : SnoozeCall(n, s)
    \/ \E n \in Names : CompleteCall(n)
    \/ Advance

Spec == Init /\ [][Next]_vars

\* --------------------------- on_due callbacks that re-enter the scheduler
NextReentrant ==
    \/ \E n \in Names, e \in Crons : ~running /\ add_reminder(n, e, "complete")
    \/ \E n \in Names, e \in Crons : ~running /\ add_reminder(n, e, "snooze")
    \/ Start
    \/ WorkerTop
    \/ WorkerScan
    \/ WorkerSleep
    \/ \E i \in DOMAIN threads : CallbackBegin(i)
    \/ \E i \in DOMAIN threads : CallbackComplete(i)
    \/ \E i \in DOMAIN threads, s \in Snoozes : CallbackSnooze(i, s)
    \/ Advance

\* The worker thread and the callback threads keep running: a thread that
\* can take its next step takes it.
Threads ==
    /\ WF_vars(WorkerSleep)
    /\ WF_vars(\E i \in DOMAIN threads : CallbackBegin(i))
    /\ WF_vars(\E i \in DOMAIN threads : CallbackComplete(i))
    /\ WF_vars(\E i \in DOMAIN threads, s \in Snoozes : CallbackSnooze(i, s))

SpecReentrant == Init /\ [][NextReentrant]_vars /\ Threads

\* ------------------------- every method of the scheduler, at any moment
\* The calls are followed up to the first fire instant after construction.
ApiEnd == T0 + SecPerMin

NextApi ==
    \/ \E n \in Names, e \in Crons \cup BadCrons : add_reminder(n, e, "mock")
    \/ \E n \in Names : remove_reminder(n)
    \/ \E n \in Names, s \in Snoozes : SnoozeCall(n, s)
    \/ \E n \in Names : CompleteCall(n)
    \/ Start
    \/ WorkerTop
    \/ WorkerScan
    \/ WorkerSleep
    \/ \E i \in DOMAIN threads : CallbackMock(i)
    \/ clock < ApiEnd /\ Advance

SpecApi == Init /\ [][NextApi]_vars

\* ------------------- the presenter and the scheduler called by hand
NextManual ==
    \/ \E n \in Names, e \in Crons : add_reminder(n, e, "emit")
    \/ \E n \in Names : Emit(n)
    \/ on_reminder_triggered
    \/ \E n \in Names : trigger_reminder(n)
    \/ \E n \in Names, s \in Snoozes : SnoozeCall(n, s)
    \/ \E n \in Names : CompleteCall(n)
    \/ make_interactive
    \/ on_reminder_completed
    \/ on_reminder_snoozed
    \/ TimerShow
    \/ OverlayHide

SpecManual == Init /\ [][NextManual]_vars

\* ------------------------------ entries removed while the worker runs
NextRemove ==
    \/ \E n \in Names, e \in Crons : ~running /\ add_reminder(n, e, "mock")
    \/ \E n \in Names : remove_reminder(n)
    \/ Start
    \/ WorkerTop
    \/ WorkerScan
    \/ WorkerSleep
    \/ \E i \in DOMAIN threads : CallbackMock(i)
    \/ Advance

SpecRemove == Init /\ [][NextRemove]_vars

\* ------------------- the scheduler started and stopped by one caller
NextLife ==
    \/ \E n \in Names, e \in Crons : Known = {} /\ wpc = "none" /\ add_reminder(n, e, "mock")
    \/ ~stopcall.joining /\ Start
    \/ ~stopcall.joining /\ StartAgain
    \/ StopBegin
    \/ StopReturn
    \/ WorkerTop
    \/ WorkerScan
    \/ WorkerSleep
    \/ WorkerExit
    \/ \E i \in DOMAIN stale : StaleTop(i)
    \/ \E i \in DOMAIN stale : StaleScan(i)
    \/ \E i \in DOMAIN stale : StaleSleep(i)
    \/ \E i \in DOMAIN stale : StaleExit(i)
    \/ \E i \in DOMAIN threads : CallbackMock(i)
    \/ Elapse

\* Every thread that can take its next step takes it, and time passes.
LifeThreads ==
    /\ WF_vars(WorkerTop)
    /\ WF_vars(WorkerScan)
    /\ WF_vars(WorkerSleep)
    /\ WF_vars(WorkerExit)
    /\ WF_vars(\E i \in DOMAIN stale : StaleScan(i))
    /\ WF_vars(\E i \in DOMAIN stale : StaleSleep(i))
    /\ WF_vars(\E i \in DOMAIN stale : StaleExit(i))
    /\ WF_vars(StopReturn)
    /\ WF_vars(Elapse)

SpecLife == Init /\ [][NextLife]_vars

\* ------------------------------------ stop() and the worker it waits for
NextStop ==
    \/ \E n \in Names, e \in Crons : Known = {} /\ wpc = "none" /\ add_reminder(n, e, "mock")
    \/ ~stopcall.joining /\ Start
    \/ StopBegin
    \/ StopReturn
    \/ WorkerTop
    \/ WorkerScan
    \/ WorkerSleep
    \/ WorkerExit
    \/ \E i \in DOMAIN stale : StaleTop(i)
    \/ \E i \in DOMAIN stale : StaleScan(i)
    \/ \E i \in DOMAIN stale : StaleSleep(i)
    \/ \E i \in DOMAIN stale : StaleExit(i)
    \/ \E i \in DOMAIN threads : CallbackMock(i)
    \/ Elapse

SpecStop == Init /\ [][NextStop]_vars /\ LifeThreads

\* ------------------------------------------- on_due callbacks that raise
NextFailing ==
    \/ \E n \in Names, e \in Crons : ~running /\ add_reminder(n, e, "mock")
    \/ \E n \in Names, e \in Crons : ~running /\ add_reminder(n, e, "raise")
    \/ Start
    \/ WorkerTop
    \/ WorkerScan
    \/ WorkerSleep
    \/ \E i \in DOMAIN threads : CallbackMock(i)
    \/ \E i \in DOMAIN threads : CallbackRaise(i)
    \/ Advance

SpecFailing == Init /\ [][NextFailing]_vars

\* ------------------- scenario S1: one reminder, the loop run for 70 s
\* The 70 s of the scenario: a minute and a part of a minute
RunFor == SecPerMin + 1

\* Time passes before the scenario begins, so that t0 is any second of a
\* minute.
Idle ==
    /\ since = None
    /\ clock < T0 + SecPerMin - 1
    /\ clock' = clock + 1
    /\ UNCHANGED << schedVars, appVars, lifeVars, cfgVars >>

\* The scenario begins: t0 = now
Begin ==
    /\ since = None
    /\ since' = clock
    /\ UNCHANGED << clock, schedVars, appVars, cfgVars, raised, stopcall, stale >>

NextS1 ==
    \/ Idle
    \/ Begin
    \/ since # None /\ Known = {} /\ add_reminder("a", "* * * * *", "mock")
    \/ Known # {} /\ Start
    \/ WorkerTop
    \/ WorkerScan
    \/ WorkerSleep
    \/ \E i \in DOMAIN threads : CallbackMock(i)
    \/ clock < since + RunFor /\ Advance

SpecS1 == Init /\ [][NextS1]_vars

\* --------------------------- add_reminder at any second of the hour
\* Time passes while the scheduler is not started.
Pass ==
    /\ ~running
    /\ clock < T0 + MaxClock
    /\ clock' = clock + 1
    /\ UNCHANGED << schedVars, appVars, lifeVars, cfgVars >>

NextAdd ==
    \/ \E n \in Names, e \in Crons \cup StepCrons : add_reminder(n, e, "mock")
    \/ Pass

SpecAdd == Init /\ [][NextAdd]_vars

\* ------------------------------------ get_status while the worker runs
NextStatus ==
    \/ \E n \in Names, e \in Crons : ~running /\ add_reminder(n, e, "mock")
    \/ \E n \in Names, s \in Snoozes : SnoozeCall(n, s)
    \/ StatusCall
    \/ Start
    \/ WorkerTop
    \/ WorkerScan
    \/ WorkerSleep
    \/ \E i \in DOMAIN threads : CallbackMock(i)
    \/ clock < ApiEnd /\ Advance

SpecStatus == Init /\ [][NextStatus]_vars

\* ------------------------- the configuration file written and loaded
NextConfig ==
    \/ \E name \in TopKeys : \E value \in ValuesOf(name) : WriteEntry(name, value)
    \/ load_config

SpecConfig == Init /\ [][NextConfig]_vars

\* ----------------------------------- the process: main() and what follows
\* The event loop is entered only when main() did not exit.
InLoop == proc.at = "exec"

NextStartup ==
    \/ \E name \in TopKeys : \E value \in ValuesOf(name) : WriteEntry(name, value)
    \/ main
    \/ InLoop /\ WorkerTop
    \/ InLoop /\ WorkerScan
    \/ InLoop /\ WorkerSleep

SpecStartup == Init /\ [][NextStartup]_vars

\* ------------------------------ the scheduler on a machine that suspends
NextSuspend ==
    \/ \E n \in Names, e \in Crons : ~running /\ add_reminder(n, e, "mock")
    \/ Start
    \/ WorkerTop
    \/ WorkerScan
    \/ WorkerSleep
    \/ \E i \in DOMAIN threads : CallbackMock(i)
    \/ Advance
    \/ \E d \in Jumps : Suspend(d)

SpecSuspend == Init /\ [][NextSuspend]_vars

\* ------------------------------------- the application: ReminderApp.run()
NextApp ==
    \/ \E n \in Names, e \in Crons : ~running /\ add_reminder(n, e, "emit")
    \/ Start
    \/ WorkerTop
    \/ WorkerScan
    \/ WorkerSleep
    \/ \E i \in DOMAIN threads : trigger_reminder_threadsafe(i)
    \/ on_reminder_triggered
    \/ make_interactive
    \/ on_reminder_completed
    \/ on_reminder_snoozed
    \/ TimerShow
    \/ OverlayHide
    \/ Advance

SpecApp == Init /\ [][NextApp]_vars

\* ------------------------------------------------------------ properties
SnoozeActive(r, t) == r.snoozed_until # None /\ r.snoozed_until > t

\* The step dispatches `name`.
Dispatches(name) == log'[name] # log[name]

\* C1: minute idempotency.  Within one wall-clock minute no name is
\* dispatched more than once, whatever the number of ticks and however the
\* ticks interleave with snooze and complete calls.
C1_MinuteIdempotency ==
    \A n \in Names : log[n].count <= 1

\* A later tick of the minute of a dispatch has scanned the entry, after a
\* snooze call on it, and has not dispatched it again.
C1_Witness ==
    \E n \in Known :
        /\ wpc = "scanned"
        /\ log[n].count = 1
        /\ log[n].minute = MinuteIndex(wnow)
        /\ reminders[n].snoozed_until # None

\* C2 (as claimed): a reminder that was dispatched and then snoozed (the
\* snooze being the only call made, as in scenario S3) is dispatched at the
\* first tick at or after snoozed_until, also when next_fire is later.  So
\* no tick ends its scan leaving behind an entry whose snooze had elapsed at
\* the tick's `now`, unless the entry was already dispatched in this minute.
C2_SnoozeRefire ==
    wpc = "scanned" =>
        \A n \in Known :
            ~ /\ log[n].minute # None
              /\ calls = 1
              /\ last.op = "snooze"
              /\ last.name = n
              /\ reminders[n].snoozed_until # None
              /\ reminders[n].snoozed_until <= wnow
              /\ log[n].minute # MinuteIndex(wnow)

C9_NoLostTicks ==
    [][\A n \in Known :
          (/\ running
           /\ reminders[n].next_run <= clock
           /\ ~SnoozeActive(reminders[n], clock))
          => (reminders'[n].next_run = reminders[n].next_run \/ Dispatches(n))]_vars

\* C10: complete recomputes.  After complete(name) on a known name at time
\* t the entry has no snooze and its next_fire is next_after(schedule, t),
\* whatever its snooze state was.
C10_CompleteRecomputes ==
    (last.op = "complete" /\ last.name \in Known) =>
        /\ reminders[last.name].snoozed_until = None
        /\ reminders[last.name].next_run =
              GetNext(reminders[last.name].cron_expression, last.at)

\* complete has just run on an entry that carried a snooze.
C10_Witness ==
    /\ last.op = "complete"
    /\ last.name \in Known
    /\ last.was # None
    /\ running

\* No more callback threads than one per reminder and minute of the run.
MaxThreads == Cardinality(Names) * (MaxClock \div SecPerMin + 1)

\* The callback thread with number k is inside on_due.
InCallback(k) == \E i \in DOMAIN threads : threads[i].seq = k /\ threads[i].st = "running"

\* The callback thread with number k has not ended.
Alive(k) == \E i \in DOMAIN threads : threads[i].seq = k

Waiting ==
    { reminder_queue[i] : i \in DOMAIN reminder_queue }
        \cup { timers[i].ev : i \in DOMAIN timers }

\* This step is a user response (the only steps of the application that
\* call snooze_reminder or complete_reminder).
Responds == calls' # calls

\* C4: reminders are presented in the order their due events arrived at the
\* presenter: while a reminder is presented, no reminder that arrived before
\* it still waits to be presented.
C4_ArrivalOrder ==
    active_reminder # NoReminder =>
        \A w \in Waiting : w.arr > active_reminder.arr

\* C5: once presented, a reminder stays the active reminder until the user
\* responds to it: the active reminder changes only in a step that forwards
\* a response for it to the scheduler.
C5_ActiveUntilResponse ==
    [][(active_reminder # NoReminder /\ active_reminder' # active_reminder)
          => (Responds /\ last'.name = active_reminder.name)]_vars

\* C6: a response to the active reminder is forwarded to the scheduler
\* exactly once, as complete(name) or snooze(name, duration); the presenter
\* becomes Idle if the queue is empty, otherwise exactly the head of the
\* queue is removed, and it is the head that the delayed presentation makes
\* the active reminder.
C6_ResponseTransition ==
    [][/\ (Responds /\ active_reminder # NoReminder) =>
            LET name == active_reminder.name
            IN /\ calls' = calls + 1
               /\ last' \in {Call("complete", name, clock), Call("snooze", name, clock)}
               /\ last'.op = "complete" =>
                     reminders' = complete_reminder(reminders, name, clock)
               /\ last'.op = "snooze" =>
                     reminders' = snooze_reminder(reminders, name,
                                                  snooze_duration(name), clock)
               /\ active_reminder' = NoReminder
               /\ IF reminder_queue = << >>
                  THEN reminder_queue' = << >> /\ timers' = << >>
                  ELSE /\ reminder_queue' = Tail(reminder_queue)
                       /\ timers' = << [ev |-> Head(reminder_queue), at |-> clock] >>
       /\ (timers # << >> /\ timers' = Tail(timers)) =>
            active_reminder' = Head(timers).ev
      ]_vars

\* The user has just snoozed the presented reminder while another one was
\* queued: the queued one waits in the single-shot of _process_queue.
C6_Witness ==
    /\ calls = 1
    /\ last.op = "snooze"
    /\ active_reminder = NoReminder
    /\ reminder_queue = << >>
    /\ Len(timers) = 1
    /\ timers[1].ev.name # last.name

\* C8: the presenter handles the due messages in the order the scheduler
\* dispatched them (within a tick: insertion order).
C8_HandledInDispatchOrder ==
    [][handled' >= handled]_vars

\* ------------------------------------------------------ pauses and jumps
\* The tick in progress is the first one after a pause: its `now` is later
\* than the sleep before it could have made it.
AfterPause == wnow > wake + MaxLag

\* This step is the scan of a tick.
Scans == wpc = "scan" /\ wpc' = "scanned"

\* C11: the first tick after a pause dispatches, exactly once, every
\* reminder whose fire instant the clock has passed and that is not snoozed.
C11_FirstTickAfterPause ==
    [][(Scans /\ AfterPause) =>
          \A n \in Known :
              (reminders[n].next_run <= wnow /\ ~SnoozeActive(reminders[n], clock))
                  => log'[n] = Logged(log, n, clock)[n]]_vars

\* ------------------------------------------------- snooze against the tick
\* The entry carries a snooze that reaches past its scheduled fire.
SnoozedPastFire(r) == r.snoozed_until # None /\ r.snoozed_until > r.next_run

\* C12: an entry snoozed past its scheduled fire is not dispatched by a scan
\* while the snooze is active; the first scan after the snooze has elapsed
\* dispatches it once, clears the snooze and recomputes next_run from the
\* time of the dispatch.
C12_SnoozePastFire ==
    [][Scans =>
          \A n \in Known :
              SnoozedPastFire(reminders[n]) =>
                  IF SnoozeActive(reminders[n], clock)
                  THEN log'[n] = log[n] /\ reminders'[n] = reminders[n]
                  ELSE reminders[n].next_run <= wnow =>
                          /\ log'[n] = Logged(log, n, clock)[n]
                          /\ reminders'[n].snoozed_until = None
                          /\ reminders'[n].next_run =
                                 GetNext(reminders[n].cron_expression, clock)]_vars

\* A scan is about to examine an entry whose snooze, set past its scheduled
\* fire by the latest call, has elapsed.
C12_Witness ==
    \E n \in Known :
        /\ wpc = "scan"
        /\ last.op = "snooze"
        /\ last.name = n
        /\ SnoozedPastFire(reminders[n])
        /\ ~SnoozeActive(reminders[n], clock)
        /\ reminders[n].next_run <= wnow
        /\ reminders[n].cron_expression = "0 * * * *"

\* C13: a reminder snoozed to an instant within the minute of its latest
\* dispatch is dispatched in the next minute: no scan of a later minute
\* ends with that snooze still undispatched.
C13_SameMinuteSnooze ==
    wpc = "scanned" =>
        \A n \in Known :
            ~ /\ last.op = "snooze"
              /\ last.name = n
              /\ log[n].minute # None
              /\ MinuteIndex(last.at) = log[n].minute
              /\ reminders[n].snoozed_until # None
              /\ MinuteIndex(reminders[n].snoozed_until) = log[n].minute
              /\ MinuteIndex(wnow) > log[n].minute

\* ------------------------------------------------- the scheduler's methods
\* This step is a call of add_reminder that raises ValueError.
AddRaises == raised' # raised /\ raised'.exc = "ValueError" /\ raised'.op = "add"

\* C14: add_reminder with an invalid schedule raises and leaves the
\* scheduler as it was: the same entries in the same order, each with the
\* same next_run and snoozed_until, also when the name is scheduled already.
C14_InvalidAddUnchanged ==
    [][AddRaises => UNCHANGED << reminders, order, running, lock, triggered,
                                last_minute, wpc, wnow, wake, threads, nDisp,
                                last, log, stopcall, stale >>]_vars

\* add_reminder has raised for a name that is scheduled and snoozed, while
\* the worker runs.
C14_Witness ==
    /\ raised = Raise("ValueError", "add", "a")
    /\ "a" \in Known
    /\ reminders["a"].snoozed_until # None
    /\ running

\* The scheduler holds exactly one entry per scheduled name.
KeysUnique ==
    /\ Len(order) = Cardinality(Known)
    /\ { order[i] : i \in DOMAIN order } = Known

\* C15: the scheduler holds one entry per name; add_reminder with a valid
\* schedule puts, in one step, an entry with that schedule, next_run
\* computed from now and no snooze under the name, in the place of the
\* entry the name had, and touches no other entry; the entries never change
\* while the worker holds the lock.
C15_UniqueNames ==
    [][/\ KeysUnique'
       /\ \A n \in Names, e \in Crons :
            add_reminder(n, e, "mock") =>
                /\ reminders'[n] = ScheduledReminder(e, "mock", GetNext(e, clock))
                /\ DOMAIN reminders' = Known \cup {n}
                /\ \A m \in Known \ {n} : reminders'[m] = reminders[m]
                /\ n \in Known => order' = order
       /\ lock = "worker" => UNCHANGED << reminders, order >>]_vars

\* While the worker runs, a snoozed entry that was never dispatched has
\* been replaced by add_reminder: it is scheduled and carries no snooze.
C15_Witness ==
    /\ last.op = "snooze"
    /\ last.name = "a"
    /\ last.at > T0
    /\ calls = 2
    /\ "a" \in Known
    /\ reminders["a"].snoozed_until = None
    /\ order = << "a", "b" >>

\* C16: snooze_reminder(name, seconds) on a scheduled name sets its
\* snoozed_until to now + seconds and leaves its next_run, its schedule, its
\* callback, every other entry, the order of the entries and the per-minute
\* guard unchanged; the same call repeated at the same instant changes
\* nothing more.
C16_SnoozeFrame ==
    [][\A n \in Known, s \in Snoozes :
         SnoozeCall(n, s) =>
             /\ reminders'[n].snoozed_until = clock + s
             /\ reminders'[n].next_run = reminders[n].next_run
             /\ reminders'[n].cron_expression = reminders[n].cron_expression
             /\ reminders'[n].callback = reminders[n].callback
             /\ DOMAIN reminders' = Known
             /\ \A m \in Known \ {n} : reminders'[m] = reminders[m]
             /\ UNCHANGED << order, triggered, last_minute, running >>
             /\ snooze_reminder(reminders', n, s, clock) = reminders']_vars

\* While the worker runs, an entry that carried a snooze has just been
\* snoozed again, to another instant, next to a second entry.
C16_Witness ==
    /\ running
    /\ last.op = "snooze"
    /\ last.name = "a"
    /\ Known = Names
    /\ last.was # None
    /\ reminders["a"].snoozed_until = last.at + SecPerMin
    /\ reminders["a"].snoozed_until # last.was
    /\ last.at > T0

\* The step is a call that carries the name `n`: snooze_reminder or
\* complete_reminder on the scheduler, trigger_reminder on the presenter, or
\* the presenter's handler of a due message.
CalledWith(n) ==
    \/ \E s \in Snoozes : SnoozeCall(n, s)
    \/ CompleteCall(n)
    \/ trigger_reminder(n)
    \/ (signals # << >> /\ Head(signals).name = n /\ on_reminder_triggered)

\* C17: snooze_reminder, complete_reminder, trigger_reminder and the handler
\* of a due message, called with a name that is not registered, change no
\* scheduler entry and nothing of what the presenter shows (active reminder,
\* queue, pending single-shots, overlay), and raise nothing.
C17_UnknownNameNoOp ==
    [][\A n \in Names \ Known :
         CalledWith(n) =>
             /\ UNCHANGED << reminders, order, triggered, last_minute >>
             /\ UNCHANGED << active_reminder, reminder_queue, timers, overlay, hides >>
             /\ raised' = NoRaise]_vars

\* A reminder is presented and another one is queued when trigger_reminder
\* is called with a name that is not registered.
C17_Witness ==
    /\ last.op = "trigger"
    /\ last.name \notin Known
    /\ active_reminder # NoReminder
    /\ reminder_queue # << >>
    /\ Known # {}

\* C18: after remove_reminder(name) the name is absent; a name that is
\* absent is dispatched by no tick; remove_reminder on an absent name (a
\* second removal, or a name never added) changes nothing and raises
\* nothing, and it leaves every other entry as it was.
C18_RemoveIdempotent ==
    [][/\ \A n \in Names :
            remove_reminder(n) =>
                /\ n \notin DOMAIN reminders'
                /\ DOMAIN reminders' = Known \ {n}
                /\ \A m \in Known \ {n} : reminders'[m] = reminders[m]
                /\ raised' = NoRaise
                /\ n \notin Known =>
                       UNCHANGED << reminders, order, triggered, last_minute, log >>
       /\ \A n \in Names \ Known : ~Dispatches(n)]_vars

\* An entry was dispatched and then removed while the worker was running;
\* the tick of a later minute has dispatched the entry that is left, and
\* not the removed one.
C18_Witness ==
    /\ wpc = "scanned"
    /\ Known = {"b"}
    /\ log["a"].minute # None
    /\ log["a"].minute < log["b"].minute
    /\ log["b"].minute = MinuteIndex(wnow)

\* The threads that execute _run_loop
LiveWorkers == (IF WorkerAlive THEN 1 ELSE 0) + Len(stale)

\* C19: start() on a scheduler that is not running sets it running and
\* starts one worker thread; no step taken while the scheduler is running
\* starts a worker, and start() on a running scheduler changes nothing;
\* stop() leaves the scheduler not running.
C19_StartIdempotent ==
    [][/\ Start => /\ running'
                   /\ wpc' = "sleep"
                   /\ LiveWorkers' = LiveWorkers + 1
       /\ running => LiveWorkers' <= LiveWorkers
       /\ StartAgain =>
              /\ raised' = NoRaise
              /\ UNCHANGED << running, wpc, wnow, wake, stale, stopcall, reminders,
                              order, lock, triggered, last_minute, threads >>
       /\ (StopBegin \/ StopReturn) => ~running']_vars

\* start() has been called twice more on the running scheduler, whose one
\* worker is in the middle of a tick after a dispatch.
C19_Witness ==
    /\ running
    /\ calls = MaxCalls
    /\ LiveWorkers = 1
    /\ wpc = "scanned"
    /\ threads # << >>

\* The clock can still reach the instant at which a sleeping worker wakes.
RoomToWake == clock + CHECK_INTERVAL + MaxLag <= T0 + MaxClock

\* The clock can still reach the instant at which the join times out.
RoomToJoin == stopcall.began + JOIN_TIMEOUT <= T0 + MaxClock

\* C20: stop() clears the flag; a worker enters a tick only while the flag
\* is set, and once the flag is cleared the worker ends at a loop test
\* unless start() sets the flag again first; a caller that waits in stop()
\* gets out of it.
C20_Cancellation ==
    /\ [][(StopBegin => ~running') /\ (WorkerTop => running)]_vars
    /\ (~running /\ WorkerAlive /\ RoomToWake) ~> (~WorkerAlive \/ running)
    /\ (stopcall.joining /\ RoomToJoin) ~> ~stopcall.joining

\* stop() has returned after the join timed out: the flag is cleared, no
\* caller waits, and the worker has not ended yet.
C20_Witness ==
    /\ ~running
    /\ ~stopcall.joining
    /\ WorkerAlive

\* The entry is due at the tick's `now`: not dispatched in this minute, no
\* active snooze, next_run reached.
DueAtTick(n) ==
    /\ n \notin triggered
    /\ ~SnoozeActive(reminders[n], clock)
    /\ reminders[n].next_run <= wnow

\* C21: an on_due callback that raises ends no worker: the step leaves the
\* worker, the flag, the lock and every entry as they were; while the
\* scheduler runs its worker is alive, and every tick, also after a
\* callback has raised, dispatches each entry that is due.
C21_CallbackFailureContained ==
    [][/\ (\E i \in DOMAIN threads : CallbackRaise(i)) =>
              UNCHANGED << wpc, wnow, wake, running, lock, reminders, order,
                           triggered, last_minute, log >>
       /\ running' => WorkerAlive'
       /\ Scans => \A n \in Known : DueAtTick(n) => Dispatches(n)]_vars

\* The callback of "a" has raised; the worker is in a later tick in which
\* "a" and the entry after it are due.
C21_Witness ==
    /\ raised = Raise("Exception", "on_due", "a")
    /\ wpc = "scan"
    /\ order = << "a", "b" >>
    /\ DueAtTick("a")
    /\ DueAtTick("b")

\* The scenario's time is up and nothing is left to happen in it: the worker
\* sleeps past the end and every callback thread has run.
ScenarioOver ==
    /\ since # None
    /\ clock = since + RunFor
    /\ wpc = "sleep"
    /\ wake > clock
    /\ threads = << >>

\* on_due invocations made so far
Invoked == nDisp - Len(threads)

\* The second fire instant after t0
SecondFire == GetNext("* * * * *", since) + SecPerMin

\* C22 (as claimed): whatever t0 is, exactly two on_due invocations have
\* occurred when the loop has run for 70 s from t0.
C22_ExactlyTwo == ScenarioOver => Invoked = 2

\* C22 (amended): within the 70 s the reminder is invoked once or twice,
\* never more; once when the second fire instant after t0 lies beyond the
\* 70 s; and when twice, in two consecutive minutes.
C22_OneOrTwo ==
    /\ since # None => nDisp <= 2
    /\ ScenarioOver =>
           /\ Invoked >= 1
           /\ SecondFire > since + RunFor => Invoked = 1
           /\ Invoked = 2 =>
                  log["a"].minute = MinuteIndex(GetNext("* * * * *", since)) + 1

\* t0 is in the last part of a minute and both invocations have occurred.
C22_Witness ==
    /\ ScenarioOver
    /\ Invoked = 2
    /\ SecondFire <= since + RunFor

\* The instant t is minute-aligned and the expression permits its minute.
Matches(expr, t) == t % SecPerMin = 0 /\ MinuteOf(t) \in CronMinutes(expr)

\* C23: add_reminder with a valid schedule sets the entry's next_run to the
\* least instant strictly after now that is minute-aligned and that the
\* schedule permits.
C23_NextFireOnAdd ==
    [][\A n \in Names, e \in Crons \cup StepCrons :
         add_reminder(n, e, "mock") =>
             LET nf == reminders'[n].next_run
             IN /\ nf > clock
                /\ Matches(e, nf)
                /\ \A t \in (clock + 1) .. (nf - 1) : ~Matches(e, t)]_vars

\* In the second half of the last minute of the hour ("12:59:30") the
\* stepped schedule was added, and its next_run is the start of the next
\* hour; the hourly schedule added then has the same next_run.
C23_Witness ==
    /\ clock = T0 + 1
    /\ Known = Names
    /\ reminders["a"] = ScheduledReminder("*/2 * * * *", "mock", SecPerMin * MinPerHour)
    /\ reminders["b"] = ScheduledReminder("0 * * * *", "mock", SecPerMin * MinPerHour)

\* The step is a get_status call: `last` becomes what the call returned now.
StatusReturns ==
    /\ last'.op = "status"
    /\ last'.at = clock
    /\ IF last.op = "status" THEN last' # last ELSE TRUE

\* C24: get_status returns one record per scheduled name; in each record
\* effective_next is the text of snoozed_until when snoozed_until is set and
\* later than now, and the text of next_run otherwise; the call changes no
\* entry.
C24_StatusEffectiveNext ==
    [][StatusReturns =>
         /\ DOMAIN last'.was = Known
         /\ \A n \in Known :
              LET r == reminders[n]
                  st == last'.was[n]
              IN /\ st.next_run = isoformat(r.next_run)
                 /\ st.snoozed_until = NoText <=> r.snoozed_until = None
                 /\ st.effective_next =
                        IF r.snoozed_until # None /\ r.snoozed_until > clock
                        THEN isoformat(r.snoozed_until)
                        ELSE isoformat(r.next_run)
         /\ UNCHANGED << reminders, order, triggered, last_minute >>]_vars

\* get_status has just returned while "a" carries a snooze that is still
\* active and "b" one that has run out.
C24_Witness ==
    /\ last.op = "status"
    /\ last.at = clock
    /\ Known = Names
    /\ SnoozeActive(reminders["a"], clock)
    /\ reminders["b"].snoozed_until # None
    /\ ~SnoozeActive(reminders["b"], clock)
    /\ last.was["a"].effective_next = isoformat(reminders["a"].snoozed_until)
    /\ last.was["b"].effective_next = isoformat(reminders["b"].next_run)


\* ------------------------------------------------- configuration loading
\* The catalogue the ConfigManager holds: what its latest successful load
\* returned.
Catalogue == manager.reminders

CatalogueNames == { Catalogue[i].name : i \in 1 .. Len(Catalogue) }

\* load_config has returned the catalogue of the file as it is now.
Loaded == file.read /\ raised = NoRaise

\* The reminder tables of the document, in file order
RECURSIVE ReminderEntries(_)
ReminderEntries(data) ==
    IF data = << >> THEN << >>
    ELSE LET rest == ReminderEntries(Tail(data))
         IN IF Head(data).value.table /\ Head(data).name # "general"
            THEN << Head(data) >> \o rest ELSE rest

\* C25: every reminder of a catalogue that a successful load returned has a
\* schedule that is a valid cron expression.
C25_ValidSchedules ==
    \A i \in 1 .. Len(Catalogue) : IsValidCron(Catalogue[i].schedule)


\* The [general] tables of the document (a TOML document has one at most)
GeneralEntries(data) ==
    { i \in 1 .. Len(data) : data[i].name = "general" /\ data[i].value.table }

\* C26: the catalogue that a load returns has exactly the keys of the
\* document whose value is a table and whose name is not general, in the
\* order of the document; a value that is not a table contributes nothing;
\* the general table is not a reminder and its keys become the general
\* settings.
C26_Classification ==
    Loaded =>
        LET tables == ReminderEntries(file.data)
        IN /\ Len(Catalogue) = Len(tables)
           /\ \A i \in 1 .. Len(tables) : Catalogue[i].name = tables[i].name
           /\ "general" \notin CatalogueNames
           /\ \A i \in GeneralEntries(file.data) :
                \A k \in DOMAIN file.data[i].value.settings :
                    manager.general[k] = file.data[i].value.settings[k]

\* A document with the reminder b, then a [general] table that sets every
\* key, then the reminder a has been loaded.
C26_Witness ==
    /\ Loaded
    /\ Len(file.data) = 3
    /\ file.data[1].name = "b"
    /\ file.data[2].name = "general"
    /\ DOMAIN file.data[2].value.settings = GeneralKeys
    /\ file.data[3].name = "a"
    /\ Len(Catalogue) = 2


\* The keys a reminder table must have
RequiredKeys == {"schedule", "icon"}

\* The reminder tables of the document that lack a required key
Lacking(data) ==
    { i \in 1 .. Len(data) :
        /\ data[i].value.table
        /\ data[i].name # "general"
        /\ ~(RequiredKeys \subseteq DOMAIN data[i].value.settings) }

\* This step is a load of the document `file.data`.
LoadStep == file.exists /\ file'.read /\ file'.data = file.data

\* C27: a load of a document in which a reminder table lacks schedule or
\* icon raises an error that names such a reminder and a key it lacks, and
\* the load changes neither the catalogue nor the general settings that the
\* ConfigManager held.
C27_MissingKeyFails ==
    /\ [](file.read /\ Lacking(file.data) # {} =>
            /\ raised.exc = "ValueError"
            /\ \E i \in Lacking(file.data) :
                /\ raised.name = file.data[i].name
                /\ raised.op \in RequiredKeys \ DOMAIN file.data[i].value.settings)
    /\ [][LoadStep /\ Lacking(file.data) # {} => manager' = manager]_vars

\* The document [general], a, b was loaded when it was [general], a; then b
\* was written without an icon and the load raised: the ConfigManager holds
\* the first load's catalogue and general settings.
C27_Witness ==
    /\ file.read
    /\ Len(file.data) = 3
    /\ file.data[1].name = "general"
    /\ file.data[3].name = "b"
    /\ Lacking(file.data) = {3}
    /\ raised = Raise("ValueError", "icon", "b")
    /\ CatalogueNames = {"a"}
    /\ manager.general = GivenGeneral


\* C28: after a load, each general setting is the value the [general] table
\* gives for it, and otherwise (no such key, or no such table) the default:
\* Sans Serif, 24, 1.0, 0.85, 2000, 500; each reminder has the
\* snooze_duration its table gives or else 300, and the text its table
\* gives or else none.
C28_Defaults ==
    Loaded =>
        LET default == [text_font |-> "Sans Serif", text_size |-> 24,
                        icon_scale |-> "1.0", max_opacity |-> "0.85",
                        fade_in_duration |-> 2000, fade_out_duration |-> 500]
            tables == ReminderEntries(file.data)
            given(k) == { i \in GeneralEntries(file.data) :
                            k \in DOMAIN file.data[i].value.settings }
        IN /\ DOMAIN manager.general = DOMAIN default
           /\ \A k \in DOMAIN default :
                IF given(k) = {} THEN manager.general[k] = default[k]
                ELSE \A i \in given(k) :
                        manager.general[k] = file.data[i].value.settings[k]
           /\ Len(Catalogue) = Len(tables)
           /\ \A i \in 1 .. Len(tables) :
                LET settings == tables[i].value.settings
                IN /\ Catalogue[i].snooze_duration =
                        IF "snooze_duration" \in DOMAIN settings
                        THEN settings["snooze_duration"] ELSE 300
                   /\ IF "text" \in DOMAIN settings
                      THEN Catalogue[i].text = << settings["text"] >>
                      ELSE Catalogue[i].text = << >>

\* A document has been loaded whose [general] table gives text_size alone,
\* whose reminder a gives a snooze_duration and no text, and whose reminder
\* b gives a text and no snooze_duration.
C28_Witness ==
    /\ Loaded
    /\ Len(file.data) = 3
    /\ file.data[1].name = "general"
    /\ DOMAIN file.data[1].value.settings = {"text_size"}
    /\ file.data[2].name = "a"
    /\ DOMAIN file.data[2].value.settings = {"schedule", "icon", "snooze_duration"}
    /\ DOMAIN file.data[3].value.settings = {"schedule", "icon", "text"}
    /\ Len(Catalogue) = 2
    /\ manager.general.text_size = 12
    /\ manager.general.text_font = "Sans Serif"
    /\ Catalogue[1].snooze_duration = 120
    /\ Catalogue[2].snooze_duration = 300


\* ----------------------------------------------------------------- startup
\* The reminder tables of the document whose schedule croniter rejects
BadSchedule(data) ==
    { i \in 1 .. Len(data) :
        /\ data[i].value.table
        /\ data[i].name # "general"
        /\ "schedule" \in DOMAIN data[i].value.settings
        /\ ~IsValidCron(data[i].value.settings["schedule"]) }

\* This step is main() as far as sys.exit or the event loop.
MainStep == proc.at = "main" /\ proc'.at # "main"

\* The process has exited with a non-zero status and no worker was started.
ExitsUnstarted ==
    /\ proc'.at = "exited"
    /\ proc'.code # None
    /\ proc'.code # 0
    /\ ~running'
    /\ wpc' = "none"

\* C29: main() with no configuration file writes the example file and exits
\* with a non-zero status; main() with a file in which a reminder table
\* lacks a required key or has an invalid cron expression exits with a
\* non-zero status; in both cases no worker is started, then or later.
C29_StartupFailure ==
    /\ [][MainStep =>
            /\ ~file.exists => file'.exists /\ file'.data = ExampleData /\ ExitsUnstarted
            /\ file.exists /\ Lacking(file.data) \cup BadSchedule(file.data) # {} =>
                    ExitsUnstarted]_vars
    /\ [](proc.at = "exited" => ~running /\ ~WorkerAlive /\ stale = << >>)

\* main() has exited on a file whose reminder a is valid and whose reminder
\* b has an invalid cron expression: a was registered before add_reminder
\* raised for b.
C29_Witness ==
    /\ proc = [at |-> "exited", code |-> 1]
    /\ raised = Raise("ValueError", "add", "b")
    /\ Known = {"a"}
    /\ CatalogueNames = {"a", "b"}
    /\ ~running


\* ------------------------------------------------------- the dispatch step
\* C30 (as claimed): a step of the tick that dispatches a reminder, the
\* tick's `now` being wnow, puts the name under the minute guard, clears
\* snoozed_until and sets next_fire to next_after(schedule, now), all in
\* the step that holds the lock; so next_fire is later than now.
C30_DispatchStep ==
    [][\A n \in Known : Dispatches(n) =>
            /\ lock' = "worker"
            /\ n \in triggered'
            /\ reminders'[n].snoozed_until = None
            /\ reminders'[n].next_run = GetNext(reminders[n].cron_expression, wnow)
            /\ reminders'[n].next_run > wnow]_vars


\* ------------------------------------------------ snoozed_until after a tick
\* C31 (as claimed): when a tick that read `now` = wnow has finished its
\* scan, every entry's snoozed_until is unset or later than now.
C31_SnoozeOnlyWhileActive ==
    wpc = "scanned" =>
        \A n \in Known :
            \/ reminders[n].snoozed_until = None
            \/ reminders[n].snoozed_until > wnow


\* ---------------------------------------------------------- the minute guard
\* C32 (as claimed): a scan, its `now` being wnow, dispatches every reminder
\* that is due at now and whose latest dispatch was not in the epoch minute
\* of now; the same minute of another hour does not count.
C32_GuardPerEpochMinute ==
    [][Scans =>
          \A n \in Known :
              (/\ wnow >= get_effective_next_run(reminders[n], clock)
               /\ log[n].minute # MinuteIndex(wnow))
                  => Dispatches(n)]_vars


\* ---------------------------------------------------------- lock discipline
\* C33 (as claimed): the entries, the per-minute guard and the running flag
\* are written only under the scheduler lock; so no step writes one of them
\* while another thread holds the lock.
C33_LockDiscipline ==
    [][(running' # running \/ triggered' # triggered \/ reminders' # reminders)
          => lock = "free"]_vars


\* ------------------------------------------------------------- monotonicity
\* The step is complete_reminder(n) returning.
Completes(n) == last' # last /\ last'.op = "complete" /\ last'.name = n

\* C34: next_after is monotone: for every schedule and every instant the
\* clock reaches, the next fire after an earlier instant is not later than
\* the next fire after that instant; and no
\* dispatch and no complete() moves an entry's next_fire backwards while the
\* clock does not run backwards.
C34_Monotone ==
    /\ [][clock' # clock =>
            \A e \in Crons \cup StepCrons : \A t1 \in 0 .. clock' :
                GetNext(e, t1) <= GetNext(e, clock')]_vars
    /\ [][\A n \in Known : (Dispatches(n) \/ Completes(n)) =>
            reminders'[n].next_run >= reminders[n].next_run]_vars

\* An entry has been dispatched and later completed, and its next_fire is
\* past the fire after the one it was added with.
C34_Witness ==
    /\ last.op = "complete"
    /\ last.name \in Known
    /\ log[last.name].minute # None
    /\ last.at >= T0 + SecPerMin
    /\ reminders[last.name].next_run > T0 + SecPerMin


\* ------------------------------------------------------ at most one worker
\* C35 (as claimed): whatever the order of the start() and stop() calls, at
\* most one thread executes _run_loop.
C35_AtMostOneWorker == LiveWorkers <= 1


\* ------------------------------------------------------------- after stop()
\* stop() has returned and start() has not been called since.
Stopped == ~running /\ ~stopcall.joining /\ wpc # "none"

\* C36 (as claimed): from the return of stop() until the next start(), no
\* step dispatches a reminder and no step changes an entry.
C36_NoDispatchAfterStop ==
    [][Stopped => /\ nDisp' = nDisp
                  /\ log' = log
                  /\ reminders' = reminders]_vars


\* ------------------------------------------------- presentations by hand
\* This step presents a reminder: another one becomes the active reminder.
Presents == active_reminder' # NoReminder /\ active_reminder' # active_reminder

\* C37 (as claimed): no step presents a reminder while a reminder is active;
\* the active reminder gives way only to a user response.
C37_NoReplacement ==
    [][Presents => active_reminder = NoReminder]_vars


\* ------------------------------------------- presentation against the snooze
\* C38 (as claimed): when a due event or the queue makes a reminder the
\* active reminder, the scheduler's entry of that name carries no snooze that
\* is still active.
C38_NotPresentedWhileSnoozed ==
    [][Presents =>
          LET n == active_reminder'.name
          IN n \in DOMAIN reminders' => ~SnoozeActive(reminders'[n], clock')]_vars


\* ------------------------------------------------ responses per presentation
\* C39 (as claimed): a presentation is answered at most once: every step
\* that forwards a response to the scheduler (and takes a reminder from the
\* queue) answers a reminder that is active, never one already answered.
C39_OneResponse ==
    [][Responds => active_reminder # NoReminder]_vars


\* ------------------------------------------------ after a failed initialize
\* C40 (as claimed): when initialize() has returned False (main() has
\* exited), the scheduler holds no entry.
C40_NothingScheduled ==
    proc.at = "exited" => Known = {} /\ order = << >>

====
